---- MODULE Spec2Model ----
(***************************************************************************)
(* helloasso-renew-contribution: one batch run of main() fetches the       *)
(* HelloAsso payments, reduces them to the latest membership-fee payment   *)
(* per payer email, fetches the Baserow members, joins both by email,      *)
(* classifies every pair, sends reminder emails through Brevo and patches  *)
(* the Baserow rows.  Runs follow one another on the same Baserow table.   *)
(*                                                                         *)
(* Time: a time.Time is a number of ticks, TicksPerDay ticks to a day,     *)
(* all in UTC; a run reads one and the same instant from time.Now().  The  *)
(* zero time.Time is tick 0, the day 0001-01-01.  A date string            *)
(* "2006-01-02" is a day number; an empty Baserow date is NoDate.          *)
(***************************************************************************)
EXTENDS Integers, Sequences, FiniteSets, TLC

(* ------------------------------ bounds -------------------------------- *)
TicksPerDay == 3
StartDay == 1000
MaxPayments == 3
MaxSource == 2
MaxRuns == 2
PageSize == 1

(* ------------------------- program constants -------------------------- *)
YearDays == 365
GuardDays == 14

NoDate == -1
ZeroTime == 0

\* the ids of the "Preferred languages" choices
EnglishId == 2590
FrenchId == 2591
SpanishId == 2592

\* the ids of the "Membership type" choices
IndividualTypeId == 2521
OrganizationTypeId == 2520

\* the environment variables the services read
HelloAssoClient == {"HELLOASSO_API_ID", "HELLOASSO_API_SECRET"}
HelloAssoQuery == {"HELLOASSO_ORG_SLUG", "HELLOASSO_FROM_DATE"}
BaserowTable == {"BASEROW_API_TOKEN", "BASEROW_MEMBER_TABLE_ID"}
BrevoKey == {"BREVO_API_KEY"}
Required == HelloAssoClient \cup HelloAssoQuery \cup BaserowTable \cup BrevoKey

(* ------------------------------- time --------------------------------- *)
\* t.Format("2006-01-02"): the day of a time
Format(t) == t \div TicksPerDay

\* time.Parse("2006-01-02", s): midnight of the day
Parse(d) == d * TicksPerDay

Before(t, u) == t < u

After(t, u) == t > u

\* t.AddDate(years, 0, days)
AddDate(t, years, days) == t + (years * YearDays + days) * TicksPerDay

(* --------------------------- sequence helpers -------------------------- *)
Range(s) == {s[k] : k \in DOMAIN s}

\* the sequences that list every element of the finite set S exactly once
Orders(S) ==
    {s \in [1..Cardinality(S) -> S] : \A x, y \in DOMAIN s : x # y => s[x] # s[y]}

SeqsUpTo(S, n) == UNION {[1..k -> S] : k \in 0..n}

(* ------------------------------ payments ------------------------------ *)
\* helloasso.Payment{} (the zero value)
ZeroPayment == [OrderFormSlug |-> "", OrderDate |-> ZeroTime, PayerEmail |-> ""]

\* lo.Filter(payments, slug is a membership fee)
IsMembershipFee(payment) ==
    \/ payment.OrderFormSlug = "cotisation-annuelle"
    \/ payment.OrderFormSlug = "annual-membership-fee"

FilterPayments(ps) == SelectSeq(ps, IsMembershipFee)

\* lo.GroupBy(filteredPayments, PayerEmail): a map email -> payments in input order
GroupBy(ps) ==
    [e \in {ps[k].PayerEmail : k \in DOMAIN ps} |->
        SelectSeq(ps, LAMBDA p : p.PayerEmail = e)]

\* the comparison handed to lo.MaxBy
Later(p1, p2) == After(p1.OrderDate, p2.OrderDate)

RECURSIVE MaxByFrom(_, _, _)
MaxByFrom(collection, k, max) ==
    IF k > Len(collection) THEN max
    ELSE MaxByFrom(collection, k + 1,
                   IF Later(collection[k], max) THEN collection[k] ELSE max)

\* mutant of MaxBy: the comparison is reversed (keeps the earliest)
MaxByEarliest(collection) ==
    IF Len(collection) = 0 THEN ZeroPayment
    ELSE CHOOSE p \in Range(collection) :
            \A q \in Range(collection) : p.OrderDate <= q.OrderDate

\* mutant of MaxBy: the empty check is off by one
MaxByOffByOne(collection) ==
    IF Len(collection) <= 1 THEN ZeroPayment
    ELSE MaxByFrom(collection, 2, collection[1])

\* mutant of MaxBy: on equal dates the later element replaces the earlier
MaxByLastSeen(collection) ==
    IF Len(collection) = 0 THEN ZeroPayment
    ELSE collection[CHOOSE k \in DOMAIN collection :
            /\ \A j \in DOMAIN collection :
                    collection[j].OrderDate <= collection[k].OrderDate
            /\ \A j \in DOMAIN collection :
                    collection[j].OrderDate = collection[k].OrderDate => j <= k]

\* lo.MaxBy(collection, comparison)
MaxBy(collection) ==
    IF Len(collection) = 0 THEN ZeroPayment
    ELSE MaxByFrom(collection, 2, collection[1])

\* lo.MapValues(groups, MaxBy): a map email -> latest payment
LatestByEmail(ps) ==
    LET groups == GroupBy(ps) IN [e \in DOMAIN groups |-> MaxBy(groups[e])]

\* lo.Values(map): the values in the iteration order of a Go map, which the
\* language leaves unspecified: every order is possible
Values(m) == {[k \in DOMAIN o |-> m[o[k]]] : o \in Orders(DOMAIN m)}

\* the reducer of main: slug filter, group by payer email, keep the latest
Reducer(ps) == Values(LatestByEmail(FilterPayments(ps)))

(* ------------------------------ members ------------------------------- *)
\* the columns GetMembers decodes from one Baserow row; a date column is
\* parsed only when it holds a non-empty string, else the zero time stays
DecodeRow(row) ==
    [Id |-> row.Id,
     Email |-> row.Email,
     ActiveMembership |-> row.ActiveMembership,
     NumberContributionsEmail |-> row.NumberContributionsEmail,
     MembershipType |-> row.MembershipType,
     PreferredLanguages |-> row.PreferredLanguages,
     LastPaymentDate |->
        IF row.LastPaymentDate # NoDate THEN Parse(row.LastPaymentDate) ELSE ZeroTime,
     LastContributionEmailDate |->
        IF row.LastContributionEmailDate # NoDate
        THEN Parse(row.LastContributionEmailDate) ELSE ZeroTime]

\* the alternate-email columns of a row, read as strings
AlternativeEmails(row) ==
    [AlternativeEmail1 |-> row.AlternativeEmail1,
     AlternativeEmail2 |-> row.AlternativeEmail2]

\* the country column of a row, read as a string
CountryOf(row) == [Country |-> row.Country]

\* baserow.Member built from one row
RowToMember(row) == DecodeRow(row) @@ AlternativeEmails(row) @@ CountryOf(row)

\* the payload UpdateMember marshals: the four written columns
Payload(member) ==
    [ActiveMembership |-> member.ActiveMembership,
     LastPaymentDate |-> Format(member.LastPaymentDate),
     LastContributionEmailDate |-> Format(member.LastContributionEmailDate),
     NumberContributionsEmail |-> member.NumberContributionsEmail]

\* the Baserow table after a PATCH of row id with payload
Patched(rows, id, payload) ==
    [k \in DOMAIN rows |->
        IF rows[k].Id = id
        THEN [rows[k] EXCEPT
                !.ActiveMembership = payload.ActiveMembership,
                !.LastPaymentDate = payload.LastPaymentDate,
                !.LastContributionEmailDate = payload.LastContributionEmailDate,
                !.NumberContributionsEmail = payload.NumberContributionsEmail]
        ELSE rows[k]]

(* ------------------------------ reconciler ---------------------------- *)
\* mutant of Put: a key that is there keeps its value
PutIfAbsent(acc, key, value) ==
    [x \in (DOMAIN acc) \cup {key} |-> IF x \in DOMAIN acc THEN acc[x] ELSE value]

\* acc[key] = value on a Go map
Put(acc, key, value) ==
    [x \in (DOMAIN acc) \cup {key} |-> IF x = key THEN value ELSE acc[x]]

\* mutant of IndexMember: the second alternate email is never indexed
IndexMemberNoAlt2(acc, member) ==
    LET a1 == Put(acc, member.Email, member)
    IN  IF member.AlternativeEmail1 # ""
        THEN Put(a1, member.AlternativeEmail1, member) ELSE a1

\* the body of the lo.Reduce that builds membersByEmail
IndexMember(acc, member) ==
    LET a1 == Put(acc, member.Email, member)
        a2 == IF member.AlternativeEmail1 # ""
              THEN Put(a1, member.AlternativeEmail1, member) ELSE a1
    IN  IF member.AlternativeEmail2 # ""
        THEN Put(a2, member.AlternativeEmail2, member) ELSE a2

RECURSIVE ReduceIndex(_, _, _)
ReduceIndex(ms, k, acc) ==
    IF k > Len(ms) THEN acc ELSE ReduceIndex(ms, k + 1, IndexMember(acc, ms[k]))

\* membersByEmail
MembersByEmail(ms) == ReduceIndex(ms, 1, <<>>)

\* lo.KeyBy(uniquePayments, PayerEmail): later entries overwrite earlier ones
RECURSIVE KeyByFrom(_, _, _)
KeyByFrom(ps, k, acc) ==
    IF k > Len(ps) THEN acc ELSE KeyByFrom(ps, k + 1, Put(acc, ps[k].PayerEmail, ps[k]))

PaymentsByEmail(ps) == KeyByFrom(ps, 1, <<>>)

\* lo.FilterMap(uniquePayments, lookup in membersByEmail)
MembersWithPayment(ps, byEmail) ==
    LET found == SelectSeq(ps, LAMBDA p : p.PayerEmail \in DOMAIN byEmail)
    IN  [k \in DOMAIN found |->
            [Member |-> byEmail[found[k].PayerEmail], Payment |-> found[k]]]

\* mutant of StatusUpdate: the dates are compared as instants, not as days
StatusUpdateExactDate(pair, yearAgo) ==
    /\ ~Before(pair.Payment.OrderDate, yearAgo)
    /\ \/ pair.Member.ActiveMembership = FALSE
       \/ pair.Member.LastPaymentDate # pair.Payment.OrderDate

\* mutant of PaymentNeeded: a payment dated exactly one year ago counts as old
PaymentNeededInclusive(pair, yearAgo) == pair.Payment.OrderDate <= yearAgo

\* the filter of membersToUpdatePaymentNeeded
PaymentNeeded(pair, yearAgo) == Before(pair.Payment.OrderDate, yearAgo)

\* mutant of StatusUpdate: the threshold test is dropped
StatusUpdateNoThreshold(pair, yearAgo) ==
    \/ pair.Member.ActiveMembership = FALSE
    \/ Format(pair.Member.LastPaymentDate) # Format(pair.Payment.OrderDate)

\* the filter of membersToUpdateStatusUpdate
StatusUpdate(pair, yearAgo) ==
    /\ ~Before(pair.Payment.OrderDate, yearAgo)
    /\ \/ pair.Member.ActiveMembership = FALSE
       \/ Format(pair.Member.LastPaymentDate) # Format(pair.Payment.OrderDate)

\* mutant of IsFrench: the country is not looked at
IsFrenchByLanguage(member) ==
    \E k \in DOMAIN member.PreferredLanguages : member.PreferredLanguages[k] = FrenchId

\* sendEmailAndUpdate, "Determine language preference": French is among the
\* preferred languages, or else the country is France
IsFrench(member) ==
    LET isFrench == \E k \in DOMAIN member.PreferredLanguages :
                        member.PreferredLanguages[k] = FrenchId
    IN  IF ~isFrench /\ member.Country = "France" THEN TRUE ELSE isFrench

\* the renewal link of the email: the form slug of the language
ContributionLink(member) ==
    IF IsFrench(member) THEN "cotisation-annuelle" ELSE "annual-membership-fee"

\* the subject and bodies of the email: the French or the English version
Template(member) == IF IsFrench(member) THEN "French" ELSE "English"

\* mutant of MaySend: the 14-day filter is missing
MaySendAlways(member, t) == TRUE

\* the 14-day filter of sendEmailAndUpdate
MaySend(member, t) == Before(member.LastContributionEmailDate, AddDate(t, 0, -GuardDays))

\* mutant of Reminded: the member is not set inactive
RemindedStillActive(pair, sendOk, t) ==
    [pair.Member EXCEPT
        !.LastPaymentDate = pair.Payment.OrderDate,
        !.LastContributionEmailDate = IF sendOk THEN t ELSE @,
        !.NumberContributionsEmail = IF sendOk THEN @ + 1 ELSE @]

\* mutant of Reminded: the member is marked as sent whatever the send returned
RemindedMarkedAnyway(pair, sendOk, t) ==
    [pair.Member EXCEPT
        !.ActiveMembership = FALSE,
        !.LastPaymentDate = pair.Payment.OrderDate,
        !.LastContributionEmailDate = t,
        !.NumberContributionsEmail = @ + 1]

\* mutant of Reminded: the reminder count is not incremented
RemindedNotCounted(pair, sendOk, t) ==
    [pair.Member EXCEPT
        !.ActiveMembership = FALSE,
        !.LastPaymentDate = pair.Payment.OrderDate,
        !.LastContributionEmailDate = IF sendOk THEN t ELSE @]

\* the member sendEmailAndUpdate patches: inactive, last payment date set,
\* and marked as sent when the send succeeded
Reminded(pair, sendOk, t) ==
    [pair.Member EXCEPT
        !.ActiveMembership = FALSE,
        !.LastPaymentDate = pair.Payment.OrderDate,
        !.LastContributionEmailDate = IF sendOk THEN t ELSE @,
        !.NumberContributionsEmail = IF sendOk THEN @ + 1 ELSE @]

\* mutant of Validated: the reminder count is kept
ValidatedKeepCount(pair) ==
    [pair.Member EXCEPT
        !.ActiveMembership = TRUE,
        !.LastPaymentDate = pair.Payment.OrderDate]

\* the member updateValidMembers patches
Validated(pair) ==
    [pair.Member EXCEPT
        !.ActiveMembership = TRUE,
        !.LastPaymentDate = pair.Payment.OrderDate,
        !.NumberContributionsEmail = 0]

(* ------------------------------- state -------------------------------- *)
VARIABLES
    now,            \* the wall clock, time.Now()
    source,         \* HelloAsso: the payments the listing returns, in its order
    store,          \* Baserow: the rows of the member table, in listing order
    pc,             \* where main stands
    runs,           \* runs started so far
    pageIndex,      \* GetPayments: the next page to ask for
    allPayments,    \* GetPayments: the payments collected so far
    apiURL,         \* GetMembers: the page the next link points to, 0 for ""
    members,        \* GetMembers: the members collected so far
    fetchErr,       \* the error that made main exit, "" when none
    filteredPayments,
    uniquePayments,
    membersByEmail,
    paymentsByEmail,
    membersWithPayment,
    oneYearAgo,
    membersToUpdatePaymentNeeded,
    membersToUpdateStatusUpdate,
    idx,            \* position of the running lo.ForEach
    stats,          \* the counts generateStats logs
    log,            \* history: the Brevo sends and Baserow patches of this run
    sentAt,         \* history: per member id, the times of its delivered reminders
    storeAtStart,   \* history: the table as the run found it
    reducedTwice,   \* the reducer applied to its own output, <<>> until applied
    config,         \* the environment variables that are set
    networked,      \* history: the run has sent a request to one of the services
    validatedBefore \* history: the status updates the previous run has written

envVars == <<source, store, config, validatedBefore>>
fetchVars == <<pageIndex, allPayments, apiURL, members, fetchErr>>
dataVars == <<filteredPayments, uniquePayments, membersByEmail, paymentsByEmail,
              membersWithPayment, oneYearAgo, membersToUpdatePaymentNeeded,
              membersToUpdateStatusUpdate>>
histVars == <<log, sentAt, storeAtStart>>
vars == <<now, envVars, pc, runs, fetchVars, dataVars, idx, stats, histVars,
          reducedTwice, networked, validatedBefore>>

\* os.Getenv(name) != "" for every name of names
Has(names) == names \subseteq config

NoStats ==
    [membersWithoutPaymentEntry |-> 0,
     membersWithoutPaymentEntryIndividual |-> 0,
     membersWithoutPaymentEntryOrganization |-> 0,
     paymentEntryWithoutMember |-> 0]

Running == pc \notin {"idle", "done", "exit"}

\* page k (from 1) of a listing cut in pages of PageSize entries
Page(list, k) ==
    SubSeq(list, (k - 1) * PageSize + 1,
           IF k * PageSize < Len(list) THEN k * PageSize ELSE Len(list))

ErrorKinds == {"transport", "status", "decode"}

(* ------------------------------ the run -------------------------------- *)
\* the pairs whose patch by updateValidMembers went through in this run
ValidatedPairs ==
    LET patches == SelectSeq(log, LAMBDA entry : entry.by = "updateValidMembers")
    IN  {[Id |-> patches[k].Id,
          Payment |-> membersToUpdateStatusUpdate[k].Payment,
          at |-> patches[k].at] : k \in {j \in DOMAIN patches : patches[j].ok}}

\* the process is started at time t
StartRunAt(t) ==
    /\ ~Running
    /\ runs < MaxRuns
    /\ now' = t
    /\ runs' = runs + 1
    /\ pc' = "GetOAuthToken"
    /\ pageIndex' = 1
    /\ allPayments' = <<>>
    /\ apiURL' = 0
    /\ members' = <<>>
    /\ fetchErr' = ""
    /\ filteredPayments' = <<>>
    /\ uniquePayments' = <<>>
    /\ membersByEmail' = <<>>
    /\ paymentsByEmail' = <<>>
    /\ membersWithPayment' = <<>>
    /\ oneYearAgo' = ZeroTime
    /\ membersToUpdatePaymentNeeded' = <<>>
    /\ membersToUpdateStatusUpdate' = <<>>
    /\ idx' = 0
    /\ stats' = NoStats
    /\ log' = <<>>
    /\ storeAtStart' = store
    /\ networked' = FALSE
    /\ validatedBefore' = ValidatedPairs
    /\ UNCHANGED <<source, store, config, sentAt, reducedTwice>>

\* mutant of ExitOnError: the page loop breaks on the error and main goes on
\* with the pages collected so far
GoOnAfterError(kind) ==
    /\ fetchErr' = kind
    /\ pc' = CASE pc = "GetPayments" -> "Reduce"
               [] pc = "GetMembers" -> "Reconcile"
               [] OTHER -> "exit"
    /\ UNCHANGED <<now, envVars, runs, pageIndex, allPayments, apiURL, members,
                   dataVars, idx, stats, histVars, reducedTwice>>

\* main on an error of GetPayments or GetMembers: log and os.Exit(1)
ExitOnError(kind) ==
    /\ fetchErr' = kind
    /\ pc' = "exit"
    /\ UNCHANGED <<now, envVars, runs, pageIndex, allPayments, apiURL, members,
                   dataVars, idx, stats, histVars, reducedTwice>>

\* getOAuthToken answers with a token
GetOAuthToken ==
    /\ pc = "GetOAuthToken"
    /\ Has(HelloAssoClient)
    /\ pc' = "GetPayments"
    /\ networked' = TRUE
    /\ UNCHANGED <<now, envVars, runs, fetchVars, dataVars, idx, stats, histVars,
                   reducedTwice>>

\* getOAuthToken fails: GetPayments returns the error
GetOAuthTokenError ==
    /\ pc = "GetOAuthToken"
    /\ Has(HelloAssoClient)
    /\ \E kind \in ErrorKinds : ExitOnError(kind)
    /\ networked' = TRUE

\* getOAuthToken without client id or secret: the error is returned before
\* any request is built
GetOAuthTokenMissingEnv ==
    /\ pc = "GetOAuthToken"
    /\ ~Has(HelloAssoClient)
    /\ ExitOnError("config")
    /\ UNCHANGED networked

\* GetPayments without organization slug or from-date: the error is
\* returned once the token has been obtained
GetPaymentsMissingEnv ==
    /\ pc = "GetPayments"
    /\ ~Has(HelloAssoQuery)
    /\ ExitOnError("config")
    /\ UNCHANGED networked

\* mutant of GetPaymentsPage: the empty page does not end the loop, the same
\* page is asked for again
GetPaymentsPageAgain ==
    /\ pc = "GetPayments"
    /\ Has(HelloAssoQuery)
    /\ networked' = TRUE
    /\ LET data == Page(source, pageIndex) IN
        /\ allPayments' = allPayments \o data
        /\ pc' = pc
        /\ pageIndex' = IF Len(data) = 0 THEN pageIndex ELSE pageIndex + 1
    /\ UNCHANGED <<now, envVars, runs, apiURL, members, fetchErr, dataVars, idx,
                   stats, histVars, reducedTwice>>

\* one turn of the page loop of GetPayments: the page is appended, an empty
\* page ends the loop
GetPaymentsPage ==
    /\ pc = "GetPayments"
    /\ Has(HelloAssoQuery)
    /\ networked' = TRUE
    /\ LET data == Page(source, pageIndex) IN
        /\ allPayments' = allPayments \o data
        /\ IF Len(data) = 0
           THEN pc' = "Reduce" /\ pageIndex' = pageIndex
           ELSE pc' = pc /\ pageIndex' = pageIndex + 1
    /\ UNCHANGED <<now, envVars, runs, apiURL, members, fetchErr, dataVars, idx,
                   stats, histVars, reducedTwice>>

\* a page request of GetPayments fails, answers another status than 200 or
\* cannot be decoded
GetPaymentsError ==
    /\ pc = "GetPayments"
    /\ Has(HelloAssoQuery)
    /\ \E kind \in ErrorKinds : ExitOnError(kind)
    /\ networked' = TRUE

\* main: slug filter, then one latest payment per payer email
ReducePayments ==
    /\ pc = "Reduce"
    /\ filteredPayments' = FilterPayments(allPayments)
    /\ \E u \in Reducer(allPayments) : uniquePayments' = u
    /\ pc' = "GetMembers"
    /\ apiURL' = 1
    /\ UNCHANGED <<now, envVars, runs, pageIndex, allPayments, members, fetchErr,
                   membersByEmail, paymentsByEmail, membersWithPayment, oneYearAgo,
                   membersToUpdatePaymentNeeded, membersToUpdateStatusUpdate, idx,
                   stats, histVars, reducedTwice, networked>>

\* mutant of GetMembersPage: the next link is not followed
GetMembersFirstPage ==
    /\ pc = "GetMembers"
    /\ Has(BaserowTable)
    /\ networked' = TRUE
    /\ LET results == Page(store, apiURL) IN
        /\ members' = members \o [k \in DOMAIN results |-> RowToMember(results[k])]
        /\ apiURL' = 0
        /\ pc' = "Reconcile"
    /\ UNCHANGED <<now, envVars, runs, pageIndex, allPayments, fetchErr, dataVars,
                   idx, stats, histVars, reducedTwice>>

\* one turn of the page loop of GetMembers: the rows are decoded and
\* appended, the loop ends when the page carries no next link
GetMembersPage ==
    /\ pc = "GetMembers"
    /\ Has(BaserowTable)
    /\ networked' = TRUE
    /\ LET results == Page(store, apiURL)
           next == IF apiURL * PageSize < Len(store) THEN apiURL + 1 ELSE 0
       IN
        /\ members' = members \o [k \in DOMAIN results |-> RowToMember(results[k])]
        /\ apiURL' = next
        /\ pc' = IF next = 0 THEN "Reconcile" ELSE pc
    /\ UNCHANGED <<now, envVars, runs, pageIndex, allPayments, fetchErr, dataVars,
                   idx, stats, histVars, reducedTwice>>

\* a page request of GetMembers fails, answers another status than 200 or
\* cannot be decoded
GetMembersError ==
    /\ pc = "GetMembers"
    /\ Has(BaserowTable)
    /\ \E kind \in ErrorKinds : ExitOnError(kind)
    /\ networked' = TRUE

\* GetMembers without API token or table id: the error is returned before
\* any request is built
GetMembersMissingEnv ==
    /\ pc = "GetMembers"
    /\ ~Has(BaserowTable)
    /\ ExitOnError("config")
    /\ UNCHANGED networked

\* main: the email index, the matched pairs and the two lists
Reconcile ==
    /\ pc = "Reconcile"
    /\ LET byEmail == MembersByEmail(members)
           pairs == MembersWithPayment(uniquePayments, byEmail)
           yearAgo == AddDate(now, -1, 0)
       IN
        /\ membersByEmail' = byEmail
        /\ paymentsByEmail' = PaymentsByEmail(uniquePayments)
        /\ membersWithPayment' = pairs
        /\ oneYearAgo' = yearAgo
        /\ membersToUpdatePaymentNeeded' =
                SelectSeq(pairs, LAMBDA pair : PaymentNeeded(pair, yearAgo))
        /\ membersToUpdateStatusUpdate' =
                SelectSeq(pairs, LAMBDA pair : StatusUpdate(pair, yearAgo))
    /\ pc' = "SendReminders"
    /\ idx' = 1
    /\ UNCHANGED <<now, envVars, runs, fetchVars, filteredPayments,
                   uniquePayments, stats, histVars, reducedTwice, networked>>

\* what the run did to the outside: a Brevo send or a Baserow PATCH
SendEntry(member, ok, t) ==
    [op |-> "send", by |-> "sendEmailAndUpdate", Id |-> member.Id,
     ToEmail |-> member.Email, Subject |-> Template(member),
     Link |-> ContributionLink(member), ok |-> ok, at |-> t]

PatchEntry(by, member, ok, t) ==
    [op |-> "patch", by |-> by, Id |-> member.Id, payload |-> Payload(member),
     ok |-> ok, at |-> t]

\* what SendEmail or UpdateMember can return: without the environment
\* variables it reads the call returns an error before any request, with
\* them the request succeeds or fails
Answers(names) == IF Has(names) THEN BOOLEAN ELSE {FALSE}

\* mutant of AfterCall: a failed call ends the run
ExitAfterFailedCall(ok, at) == IF ok THEN at ELSE "exit"

\* if err != nil { logger.Error(...) }: where main stands after a send or a
\* patch returned; the error is logged and nothing else
AfterCall(ok, at) == at

\* sendEmailAndUpdate on the pair the ForEach stands at: behind the 14-day
\* filter the email is sent, the member is marked when the send succeeded,
\* and the member is patched whatever the send returned; both errors are
\* logged only
SendEmailAndUpdate ==
    /\ pc = "SendReminders"
    /\ idx <= Len(membersToUpdatePaymentNeeded)
    /\ LET pair == membersToUpdatePaymentNeeded[idx] IN
        IF MaySend(pair.Member, now)
        THEN \E sendOk \in Answers(BrevoKey), patchOk \in Answers(BaserowTable) :
                LET member == Reminded(pair, sendOk, now) IN
                /\ log' = log \o <<SendEntry(member, sendOk, now),
                                   PatchEntry("sendEmailAndUpdate", member, patchOk, now)>>
                /\ sentAt' = IF sendOk
                             THEN [sentAt EXCEPT ![member.Id] = Append(@, now)]
                             ELSE sentAt
                /\ store' = IF patchOk
                            THEN Patched(store, member.Id, Payload(member))
                            ELSE store
                /\ pc' = AfterCall(sendOk /\ patchOk, pc)
                /\ networked' = TRUE
        ELSE UNCHANGED <<log, sentAt, store, pc, networked>>
    /\ idx' = idx + 1
    /\ UNCHANGED <<now, source, config, validatedBefore, runs, fetchVars, dataVars, stats,
                   storeAtStart, reducedTwice>>

\* the first ForEach is over, the second starts
RemindersDone ==
    /\ pc = "SendReminders"
    /\ idx > Len(membersToUpdatePaymentNeeded)
    /\ pc' = "UpdateStatus"
    /\ idx' = 1
    /\ UNCHANGED <<now, envVars, runs, fetchVars, dataVars, stats, histVars,
                   reducedTwice, networked>>

\* updateValidMembers on the pair the ForEach stands at: the member is
\* patched, an error is logged only
UpdateValidMembers ==
    /\ pc = "UpdateStatus"
    /\ idx <= Len(membersToUpdateStatusUpdate)
    /\ LET member == Validated(membersToUpdateStatusUpdate[idx]) IN
        \E patchOk \in Answers(BaserowTable) :
            /\ log' = Append(log, PatchEntry("updateValidMembers", member, patchOk, now))
            /\ store' = IF patchOk
                        THEN Patched(store, member.Id, Payload(member))
                        ELSE store
            /\ pc' = AfterCall(patchOk, pc)
    /\ idx' = idx + 1
    /\ networked' = TRUE
    /\ UNCHANGED <<now, source, config, validatedBefore, runs, fetchVars, dataVars, stats, sentAt,
                   storeAtStart, reducedTwice>>

\* the second ForEach is over
UpdatesDone ==
    /\ pc = "UpdateStatus"
    /\ idx > Len(membersToUpdateStatusUpdate)
    /\ pc' = "Stats"
    /\ UNCHANGED <<now, envVars, runs, fetchVars, dataVars, idx, stats, histVars,
                   reducedTwice, networked>>

\* mutant of PaymentEntryWithoutMember: the filter lets every payment through
PaymentEntryUnfiltered(ps, byEmail) == ps

\* generateStats: the payments whose payer email is no key of membersByEmail
PaymentEntryWithoutMember(ps, byEmail) ==
    SelectSeq(ps, LAMBDA p : p.PayerEmail \notin DOMAIN byEmail)

\* generateStats: the members whose primary email is no key of paymentsByEmail
MembersWithoutPaymentEntry(ms, byEmail) ==
    SelectSeq(ms, LAMBDA m : m.Email \notin DOMAIN byEmail)

\* generateStats, then main returns
GenerateStats ==
    /\ pc = "Stats"
    /\ stats' =
        [membersWithoutPaymentEntry |->
            Len(MembersWithoutPaymentEntry(members, paymentsByEmail)),
         membersWithoutPaymentEntryIndividual |->
            Len(SelectSeq(MembersWithoutPaymentEntry(members, paymentsByEmail),
                          LAMBDA m : m.MembershipType = IndividualTypeId)),
         membersWithoutPaymentEntryOrganization |->
            Len(SelectSeq(MembersWithoutPaymentEntry(members, paymentsByEmail),
                          LAMBDA m : m.MembershipType = OrganizationTypeId)),
         paymentEntryWithoutMember |->
            Len(PaymentEntryWithoutMember(uniquePayments, membersByEmail))]
    /\ pc' = "done"
    /\ UNCHANGED <<now, envVars, runs, fetchVars, dataVars, idx, histVars,
                   reducedTwice, networked>>

\* the reducer applied once more, to the payments it returned
ReduceAgain ==
    /\ pc = "SendReminders"
    /\ \E u \in Reducer(uniquePayments) : reducedTwice' = u
    /\ pc' = "reduced"
    /\ UNCHANGED <<now, envVars, runs, fetchVars, dataVars, idx, stats, histVars,
                   networked>>

(* ------------------------------- inputs -------------------------------- *)
\* the instant of the first run, and the payment dates around its threshold
T0 == Parse(StartDay) + 1
OldPay == AddDate(T0, -1, -35)
EdgePay == AddDate(T0, -1, 0)
RecentPay == AddDate(T0, 0, -10)

Fee(e, t) == [OrderFormSlug |-> "cotisation-annuelle", OrderDate |-> t, PayerEmail |-> e]

\* payments of every slug, of two payers, old and recent
BroadPayments ==
    [OrderFormSlug : {"cotisation-annuelle", "annual-membership-fee", "don"},
     OrderDate : {OldPay, RecentPay},
     PayerEmail : {"a", "b"}]

\* the payments a listing is drawn from, in listing order
Catalogue ==
    <<Fee("a", OldPay), Fee("a", EdgePay), Fee("b", RecentPay), Fee("b", OldPay),
      Fee("c", RecentPay), Fee("c", OldPay), Fee("d", RecentPay),
      [OrderFormSlug |-> "don", OrderDate |-> RecentPay, PayerEmail |-> "a"]>>

\* the listings that keep at most n payments of the catalogue
Listings(n) ==
    {[k \in 1..Cardinality(S) |->
        Catalogue[CHOOSE j \in S : Cardinality({x \in S : x < j}) = k - 1]] :
     S \in {T \in SUBSET DOMAIN Catalogue : Cardinality(T) <= n}}

\* the bookkeeping columns of a row: never reminded, up to date, reminded
\* a month ago, reminded five days ago; each with its languages and country
Profiles ==
    {[ActiveMembership |-> FALSE, LastPaymentDate |-> NoDate,
      LastContributionEmailDate |-> NoDate, NumberContributionsEmail |-> 0,
      PreferredLanguages |-> <<>>, Country |-> "France",
      MembershipType |-> IndividualTypeId],
     [ActiveMembership |-> TRUE, LastPaymentDate |-> Format(RecentPay),
      LastContributionEmailDate |-> NoDate, NumberContributionsEmail |-> 0,
      PreferredLanguages |-> <<EnglishId>>, Country |-> "France",
      MembershipType |-> OrganizationTypeId],
     [ActiveMembership |-> TRUE, LastPaymentDate |-> Format(OldPay),
      LastContributionEmailDate |-> StartDay - 30, NumberContributionsEmail |-> 1,
      PreferredLanguages |-> <<SpanishId, FrenchId>>, Country |-> "Belgium",
      MembershipType |-> IndividualTypeId],
     [ActiveMembership |-> FALSE, LastPaymentDate |-> Format(OldPay),
      LastContributionEmailDate |-> StartDay - 5, NumberContributionsEmail |-> 1,
      PreferredLanguages |-> <<EnglishId, SpanishId>>, Country |-> "Germany",
      MembershipType |-> 0]}

Row(id, email, alt1, alt2, profile) ==
    [Id |-> id, Email |-> email, AlternativeEmail1 |-> alt1, AlternativeEmail2 |-> alt2]
        @@ profile

NeverReminded == CHOOSE p \in Profiles : p.LastPaymentDate = NoDate

\* never reminded, no language chosen, abroad
Abroad == [NeverReminded EXCEPT !.Country = "Belgium"]

\* tables of one or two rows; the second row may register the first one's email
Tables(alt2s) ==
    LET firsts == {Row(1, "a", alt1, alt2, p) :
                        alt1 \in {"", "b"}, alt2 \in alt2s, p \in Profiles}
        seconds == {Row(2, "c", "", "", Abroad),
                    Row(2, "b", "", "a", NeverReminded)}
    IN  {<<r>> : r \in firsts} \cup {<<r1, r2>> : r1 \in firsts, r2 \in seconds}

MemberIds == {1, 2}

\* the environments: every variable set, or all but one
Environments == {Required} \cup {Required \ {name} : name \in Required}

\* the pauses between two runs
Waits == {1, GuardDays * TicksPerDay}

InitEnv(listing, table, environment) ==
    /\ now = T0
    /\ source = listing
    /\ store = table
    /\ config = environment
    /\ networked = FALSE
    /\ validatedBefore = {}
    /\ pc = "idle"
    /\ runs = 0
    /\ pageIndex = 1
    /\ allPayments = <<>>
    /\ apiURL = 0
    /\ members = <<>>
    /\ fetchErr = ""
    /\ filteredPayments = <<>>
    /\ uniquePayments = <<>>
    /\ membersByEmail = <<>>
    /\ paymentsByEmail = <<>>
    /\ membersWithPayment = <<>>
    /\ oneYearAgo = ZeroTime
    /\ membersToUpdatePaymentNeeded = <<>>
    /\ membersToUpdateStatusUpdate = <<>>
    /\ idx = 0
    /\ stats = NoStats
    /\ log = <<>>
    /\ sentAt = [id \in MemberIds |-> <<>>]
    /\ storeAtStart = table
    /\ reducedTwice = <<>>

InitWith(listing, table) == InitEnv(listing, table, Required)

(* --------------------------- specifications ---------------------------- *)
\* runs of the program, one after the other, on a table that keeps its patches
Init == \E listing \in Listings(MaxSource), table \in Tables({""}),
             environment \in Environments :
            InitEnv(listing, table, environment)

\* the first run, and a later run after a pause
FirstRun == runs = 0 /\ StartRunAt(now)

NextRun == runs > 0 /\ \E w \in Waits : StartRunAt(now + w)

Next ==
    \/ FirstRun
    \/ NextRun
    \/ GetOAuthToken
    \/ GetOAuthTokenError
    \/ GetOAuthTokenMissingEnv
    \/ GetPaymentsPage
    \/ GetPaymentsError
    \/ GetPaymentsMissingEnv
    \/ ReducePayments
    \/ GetMembersPage
    \/ GetMembersError
    \/ GetMembersMissingEnv
    \/ Reconcile
    \/ SendEmailAndUpdate
    \/ RemindersDone
    \/ UpdateValidMembers
    \/ UpdatesDone
    \/ GenerateStats

Spec == Init /\ [][Next]_vars

\* the steps main takes by itself once the call it waits for has returned;
\* a service is free to fail or not, so no failure is ever required
Step ==
    \/ GetOAuthToken
    \/ GetOAuthTokenMissingEnv
    \/ GetPaymentsPage
    \/ GetPaymentsMissingEnv
    \/ ReducePayments
    \/ GetMembersPage
    \/ GetMembersMissingEnv
    \/ Reconcile
    \/ SendEmailAndUpdate
    \/ RemindersDone
    \/ UpdateValidMembers
    \/ UpdatesDone
    \/ GenerateStats

\* the runs, when every call returns: main is sequential and blocks on each
\* call, so a step that can be taken is taken
SpecFair == Init /\ [][Next]_vars /\ WF_vars(Step)

\* the data path of one run whose calls all succeed, on every payment list
\* and every table of the bounds, with the reducer applied a second time
InitData ==
    \/ \E listing \in SeqsUpTo(BroadPayments, MaxPayments) :
            InitWith(listing, <<Row(1, "a", "b", "", NeverReminded)>>)
    \/ \E listing \in Listings(MaxPayments), table \in Tables({"", "c"}) :
            InitWith(listing, table)

NextData ==
    \/ FirstRun
    \/ GetOAuthToken
    \/ GetPaymentsPage
    \/ ReducePayments
    \/ GetMembersPage
    \/ Reconcile
    \/ ReduceAgain

SpecData == InitData /\ [][NextData]_vars

(* ------------------------------- claims -------------------------------- *)
\* main has built the index, the pairs and the two lists
Reconciled == pc \in {"SendReminders", "UpdateStatus", "Stats", "done", "reduced"}

\* main has reduced the payments
Reduced == pc \in {"GetMembers", "Reconcile"} \/ Reconciled

InPaymentNeeded(pair) == pair \in Range(membersToUpdatePaymentNeeded)

InStatusUpdate(pair) == pair \in Range(membersToUpdateStatusUpdate)

\* C1: every matched pair is in the needs-reminder list, in the
\* needs-status-update list or in neither (no action), never in both; the
\* two lists hold matched pairs only, each at most once.
C1_ClassificationExclusive ==
    Reconciled =>
        /\ \A pair \in Range(membersWithPayment) :
                ~(InPaymentNeeded(pair) /\ InStatusUpdate(pair))
        /\ Range(membersToUpdatePaymentNeeded) \cup Range(membersToUpdateStatusUpdate)
                \subseteq Range(membersWithPayment)
        /\ Len(membersToUpdatePaymentNeeded) + Len(membersToUpdateStatusUpdate)
                <= Len(membersWithPayment)

\* three pairs of one run, one in each class
C1_Witness ==
    /\ Reconciled
    /\ \E p1, p2, p3 \in Range(membersWithPayment) :
        /\ InPaymentNeeded(p1)
        /\ InStatusUpdate(p2)
        /\ ~InPaymentNeeded(p3) /\ ~InStatusUpdate(p3)

\* the entries of the reduced list paid from email e
ReducedFor(e) == {k \in DOMAIN uniquePayments : uniquePayments[k].PayerEmail = e}

\* C5 as stated: per payer email the reduced list holds at most one entry,
\* dated on or after every payment of that email in the list the reducer
\* was given.
C5_LatestOfAllInput ==
    Reduced =>
        \A p \in Range(allPayments) :
            /\ Cardinality(ReducedFor(p.PayerEmail)) <= 1
            /\ \A k \in ReducedFor(p.PayerEmail) :
                    uniquePayments[k].OrderDate >= p.OrderDate

\* C5 amended: per payer email the reduced list holds at most one entry,
\* dated on or after every membership-fee payment of that email in the
\* list the reducer was given; there is one when the email paid such a fee.
C5_LatestOfFees ==
    Reduced =>
        /\ \A p \in Range(allPayments) : Cardinality(ReducedFor(p.PayerEmail)) <= 1
        /\ \A p \in Range(allPayments) :
            IsMembershipFee(p) =>
                /\ ReducedFor(p.PayerEmail) # {}
                /\ \A k \in ReducedFor(p.PayerEmail) :
                        uniquePayments[k].OrderDate >= p.OrderDate

\* a payer with an older and a newer membership fee, reduced
C5_Witness ==
    /\ Reduced
    /\ \E p, q \in Range(allPayments) :
        /\ IsMembershipFee(p) /\ IsMembershipFee(q)
        /\ p.PayerEmail = q.PayerEmail
        /\ p.OrderDate < q.OrderDate
        /\ q \in Range(uniquePayments)

\* C6: the reducer applied to the list it returned gives the same set of
\* payments.
C6_ReducerIdempotent ==
    pc = "reduced" => Range(reducedTwice) = Range(uniquePayments)

\* two payers, one of them with several membership fees, reduced twice
C6_Witness ==
    /\ pc = "reduced"
    /\ Len(uniquePayments) = 2
    /\ Len(filteredPayments) > Len(uniquePayments)

\* the emails a member is registered under
EmailsOf(member) ==
    {member.Email} \cup ({member.AlternativeEmail1, member.AlternativeEmail2} \ {""})

Reachable(member, e) == e \in DOMAIN membersByEmail /\ membersByEmail[e] = member

\* C7 as stated: every member is found under its primary email and under
\* each of its non-empty alternate emails.
C7_EveryMemberReachable ==
    Reconciled => \A m \in Range(members) : \A e \in EmailsOf(m) : Reachable(m, e)

\* C7 amended: a member is found under its primary email and under each of
\* its non-empty alternate emails, except under an email that a later
\* member of the fetched list is registered under too; that email leads to
\* the last member registered under it.
C7_ReachableUnlessOverwritten ==
    Reconciled =>
        \A k \in DOMAIN members : \A e \in EmailsOf(members[k]) :
            (\A j \in DOMAIN members : j > k => e \notin EmailsOf(members[j]))
                => Reachable(members[k], e)

\* a member with both alternates, found under its three emails
C7_Witness ==
    /\ Reconciled
    /\ \E m \in Range(members) :
        /\ m.AlternativeEmail1 # "" /\ m.AlternativeEmail2 # ""
        /\ Cardinality({e \in DOMAIN membersByEmail : membersByEmail[e] = m}) = 3

\* the emails the index resolves to the member of this id
IndexedEmails(id) == {e \in DOMAIN membersByEmail : membersByEmail[e].Id = id}

\* C8: the payment of a matched pair is the latest membership fee paid
\* from any email the index resolves to the pair's member.
C8_PairHasLatestPayment ==
    Reconciled =>
        \A pair \in Range(membersWithPayment) : \A p \in Range(filteredPayments) :
            p.PayerEmail \in IndexedEmails(pair.Member.Id)
                => ~After(p.OrderDate, pair.Payment.OrderDate)

\* the member's last reminder is dated within 14 days of now
WithinGuard(member) == now - member.LastContributionEmailDate <= GuardDays * TicksPerDay

\* the first ForEach, over the needs-reminder list, is over
RemindersOver == pc \in {"UpdateStatus", "Stats", "done"}

\* C2 as stated: a fetched member whose last reminder is dated within 14
\* days of now gets no send and no patch in the run.
C2_NoSendNoPatchWithinGuard ==
    \A m \in Range(members) :
        WithinGuard(m) => \A k \in DOMAIN log : log[k].Id # m.Id

\* C2 amended: a fetched member whose last reminder is dated within 14 days
\* of now gets no send in the run and no patch from sendEmailAndUpdate; the
\* only patch it can get is the status update of updateValidMembers.
C2_NoReminderWithinGuard ==
    \A m \in Range(members) :
        WithinGuard(m) =>
            \A k \in DOMAIN log : log[k].Id = m.Id => log[k].by = "updateValidMembers"

\* the reminders are over and one pair of the needs-reminder list had a
\* member reminded within 14 days
C2_Witness ==
    /\ RemindersOver
    /\ \E pair \in Range(membersToUpdatePaymentNeeded) :
        /\ WithinGuard(pair.Member)
        /\ pair.Member.LastContributionEmailDate # ZeroTime

\* C3: two reminders delivered to one member, in one run or in two, are at
\* least 14 days apart.
C3_RemindersFourteenDaysApart ==
    \A id \in MemberIds : \A i, j \in DOMAIN sentAt[id] :
        i < j => sentAt[id][j] - sentAt[id][i] >= GuardDays * TicksPerDay

\* C4: a row's reminder count and last-reminder date change only in a step
\* that delivered a reminder to that member.
C4_BookkeepingOnlyAfterSend ==
    [][\A k \in DOMAIN store :
            (\/ store'[k].NumberContributionsEmail # store[k].NumberContributionsEmail
             \/ store'[k].LastContributionEmailDate # store[k].LastContributionEmailDate)
                => Len(sentAt'[store[k].Id]) > Len(sentAt[store[k].Id])]_vars

\* the table after the successful patches of entries, from entry k on
RECURSIVE Replay(_, _, _)
Replay(rows, entries, k) ==
    IF k > Len(entries) THEN rows
    ELSE Replay(IF entries[k].op = "patch" /\ entries[k].ok
                THEN Patched(rows, entries[k].Id, entries[k].payload) ELSE rows,
                entries, k + 1)

\* the calls a run makes when it goes through both lists: a send and a
\* patch per needs-reminder pair the 14-day filter lets through, a patch
\* per needs-status-update pair
CallsOfBothLists ==
    2 * Cardinality({k \in DOMAIN membersToUpdatePaymentNeeded :
                        MaySend(membersToUpdatePaymentNeeded[k].Member, now)})
        + Len(membersToUpdateStatusUpdate)

\* C9: a failed send or patch never ends the run; when the run is through
\* both lists every pair of them has had its calls; the table holds every
\* successful patch of the run, applied in order, none undone.
C9_FailureDoesNotAbort ==
    /\ (\E k \in DOMAIN log : ~log[k].ok) => pc # "exit"
    /\ pc \in {"Stats", "done"} => Len(log) = CallsOfBothLists
    /\ store = Replay(storeAtStart, log, 1)

\* a finished run whose first pair had its send and its patch fail, and
\* whose last call, for a later pair, succeeded
C9_Witness ==
    /\ pc = "done"
    /\ Len(log) >= 3
    /\ ~log[1].ok /\ ~log[2].ok
    /\ log[Len(log)].ok /\ log[Len(log)].op = "patch"
    /\ store # storeAtStart

\* C10: once a page of the payments or of the members failed, the run is
\* over: it sent no email and patched no row.
C10_FetchFailureAborts ==
    fetchErr # "" => pc = "exit" /\ log = <<>> /\ store = storeAtStart

\* the second page of the members failed to decode, with payments reduced
\* and a first page of members at hand
C10_Witness ==
    /\ pc = "exit"
    /\ fetchErr = "decode"
    /\ Len(members) > 0
    /\ \E k \in DOMAIN uniquePayments : uniquePayments[k].PayerEmail = members[1].Email

\* the run has left getOAuthToken behind
PastFirstCheck == runs > 0 /\ pc # "GetOAuthToken"

\* C11: when a required environment variable is absent the run exits with
\* an error before it sends any request to a service.
C11_MissingConfigAbortsFirst ==
    (config # Required /\ PastFirstCheck) => (pc = "exit" /\ ~networked)

\* C12 as stated: the email is the French one, with the French link, when
\* French is among the member's preferred languages, or when the country
\* is France and the member has chosen no other language; else it is the
\* English one with the English link.
C12_FrenchUnlessOtherLanguage ==
    \A k \in DOMAIN log : log[k].op = "send" =>
        \A m \in Range(members) : m.Id = log[k].Id =>
            LET french == \/ FrenchId \in Range(m.PreferredLanguages)
                          \/ m.Country = "France" /\ m.PreferredLanguages = <<>>
            IN  /\ log[k].Subject = IF french THEN "French" ELSE "English"
                /\ log[k].Link = IF french THEN "cotisation-annuelle"
                                            ELSE "annual-membership-fee"

\* C12 amended: the email is the French one, with the French link, when
\* French is among the member's preferred languages or when the country is
\* France, whatever other languages are preferred; else it is the English
\* one with the English link.
C12_FrenchByLanguageOrCountry ==
    \A k \in DOMAIN log : log[k].op = "send" =>
        \A m \in Range(members) : m.Id = log[k].Id =>
            LET french == \/ FrenchId \in Range(m.PreferredLanguages)
                          \/ m.Country = "France"
            IN  /\ log[k].Subject = IF french THEN "French" ELSE "English"
                /\ log[k].Link = IF french THEN "cotisation-annuelle"
                                            ELSE "annual-membership-fee"

\* one run sent an English email to a member abroad and a French one to a
\* member in France who has chosen no language
C12_Witness ==
    \E j, k \in DOMAIN log :
        /\ log[j].op = "send" /\ log[j].Subject = "English"
        /\ log[k].op = "send" /\ log[k].Subject = "French"
        /\ \E m \in Range(members) :
                m.Id = log[k].Id /\ m.PreferredLanguages = <<>> /\ m.Country = "France"

\* the reduced payments whose payer email no fetched member is registered under
Unmatched ==
    {k \in DOMAIN uniquePayments :
        \A m \in Range(members) : uniquePayments[k].PayerEmail \notin EmailsOf(m)}

\* a pair of one of the two lists stands behind the call of a log entry
PairBehind(entry) ==
    \E pair \in Range(membersToUpdatePaymentNeeded) \cup Range(membersToUpdateStatusUpdate) :
        /\ pair.Member.Id = entry.Id
        /\ entry.op = "patch" => entry.payload.LastPaymentDate = Format(pair.Payment.OrderDate)

\* C13: a reduced payment whose payer email is in no member's emails is in
\* no matched pair, so every send and patch of the run is made for a pair
\* of a matched payment; generateStats counts the unmatched payments.
C13_UnmatchedPaymentOnlyCounted ==
    Reconciled =>
        /\ \A pair \in Range(membersWithPayment) :
                \A k \in Unmatched : pair.Payment # uniquePayments[k]
        /\ Len(membersWithPayment) = Len(uniquePayments) - Cardinality(Unmatched)
        /\ \A k \in DOMAIN log : PairBehind(log[k])
        /\ pc = "done" => stats.paymentEntryWithoutMember = Cardinality(Unmatched)

\* a finished run with a matched payment that led to calls and a payment
\* of an unknown payer
C13_Witness ==
    /\ pc = "done"
    /\ Unmatched # {}
    /\ membersWithPayment # <<>>
    /\ log # <<>>
    /\ stats.paymentEntryWithoutMember = 1

\* the patches updateValidMembers has issued so far, in order
StatusPatches == SelectSeq(log, LAMBDA entry : entry.by = "updateValidMembers")

\* C14: the k-th patch of updateValidMembers is the one of the k-th
\* needs-status-update pair: its member, active, the day of the payment as
\* last payment date, count 0; at the end there is one per pair.
C14_StatusUpdatePatch ==
    /\ Len(StatusPatches) <= Len(membersToUpdateStatusUpdate)
    /\ \A k \in DOMAIN StatusPatches :
        LET pair == membersToUpdateStatusUpdate[k]
            payload == StatusPatches[k].payload
        IN  /\ StatusPatches[k].Id = pair.Member.Id
            /\ payload.ActiveMembership = TRUE
            /\ payload.LastPaymentDate = Format(pair.Payment.OrderDate)
            /\ payload.NumberContributionsEmail = 0
    /\ pc \in {"Stats", "done"} => Len(StatusPatches) = Len(membersToUpdateStatusUpdate)

\* a member reminded before, inactive, has paid: the patch went through
\* and the row is active with count 0
C14_Witness ==
    /\ pc = "done"
    /\ \E pair \in Range(membersToUpdateStatusUpdate) :
        /\ pair.Member.NumberContributionsEmail > 0
        /\ ~pair.Member.ActiveMembership
        /\ \E k \in DOMAIN store :
            /\ store[k].Id = pair.Member.Id
            /\ store[k].ActiveMembership
            /\ store[k].NumberContributionsEmail = 0

\* a patch of sendEmailAndUpdate for the pair: the member inactive, the day
\* of the payment as last payment date
ReminderPatch(pair, entry) ==
    /\ entry.op = "patch" /\ entry.by = "sendEmailAndUpdate"
    /\ entry.Id = pair.Member.Id
    /\ entry.payload.ActiveMembership = FALSE
    /\ entry.payload.LastPaymentDate = Format(pair.Payment.OrderDate)

\* the row of the last call's member holds what a successful patch wrote
LastPatchStored ==
    (log # <<>> /\ log[Len(log)].op = "patch" /\ log[Len(log)].ok) =>
        \A k \in DOMAIN store : store[k].Id = log[Len(log)].Id =>
            /\ store[k].ActiveMembership = log[Len(log)].payload.ActiveMembership
            /\ store[k].LastPaymentDate = log[Len(log)].payload.LastPaymentDate

C17_CallsAfterBothPaginations ==
    log # <<>> =>
        /\ allPayments = source
        /\ Page(source, pageIndex) = <<>>
        /\ apiURL = 0
        /\ Len(members) = Len(store)
        /\ \A k \in DOMAIN store : members[k].Id = store[k].Id

\* a call was made for a member of the second page of the table, for a
\* payment of the second page of the listing
C17_Witness ==
    /\ Len(source) > PageSize /\ Len(store) > PageSize
    /\ \E k \in DOMAIN log :
        /\ log[k].Id = store[Len(store)].Id
        /\ \E pair \in Range(membersWithPayment) :
            pair.Member.Id = log[k].Id /\ pair.Payment = source[Len(source)]

\* C18: a matched pair is in the needs-reminder list exactly when its
\* payment is dated strictly before now minus one year; a pair dated
\* exactly now minus one year is not in it and goes through the test of
\* the status update.
C18_ReminderIffStrictlyBefore ==
    Reconciled =>
        /\ oneYearAgo = AddDate(now, -1, 0)
        /\ \A pair \in Range(membersWithPayment) :
            /\ InPaymentNeeded(pair) <=> pair.Payment.OrderDate < oneYearAgo
            /\ pair.Payment.OrderDate = oneYearAgo =>
                /\ ~InPaymentNeeded(pair)
                /\ InStatusUpdate(pair) <=>
                        \/ ~pair.Member.ActiveMembership
                        \/ Format(pair.Member.LastPaymentDate) # Format(oneYearAgo)

\* a pair dated exactly now minus one year is in the status update list,
\* next to a pair in the needs-reminder list
C18_Witness ==
    /\ Reconciled
    /\ \E p1, p2 \in Range(membersWithPayment) :
        /\ p1.Payment.OrderDate = oneYearAgo /\ InStatusUpdate(p1)
        /\ p2.Payment.OrderDate < oneYearAgo /\ InPaymentNeeded(p2)

\* the instant t falls on day d
OnDay(t, d) == d * TicksPerDay <= t /\ t < (d + 1) * TicksPerDay

\* two instants of the same day
SameDay(t, u) == t - (t % TicksPerDay) = u - (u % TicksPerDay)

\* C19: a matched pair is in the needs-status-update list exactly when its
\* payment is dated on or after now minus one year and the member is
\* inactive or its stored last payment day is another day than the
\* payment's.
C19_StatusUpdateIff ==
    Reconciled =>
        \A pair \in Range(membersWithPayment) :
            InStatusUpdate(pair) <=>
                /\ pair.Payment.OrderDate >= AddDate(now, -1, 0)
                /\ \/ ~pair.Member.ActiveMembership
                   \/ ~SameDay(pair.Member.LastPaymentDate, pair.Payment.OrderDate)

\* an active member whose stored day is the day of its recent payment is
\* left alone, next to an active member with another stored day
C19_Witness ==
    /\ Reconciled
    /\ \E pair \in Range(membersWithPayment) :
        /\ pair.Member.ActiveMembership
        /\ pair.Payment.OrderDate >= oneYearAgo
        /\ pair.Member.LastPaymentDate # pair.Payment.OrderDate
        /\ SameDay(pair.Member.LastPaymentDate, pair.Payment.OrderDate)
        /\ ~InStatusUpdate(pair)
    /\ \E pair \in Range(membersWithPayment) :
        pair.Member.ActiveMembership /\ InStatusUpdate(pair)

\* the member of this id as GetMembers returned it
Snapshot(id) == CHOOSE m \in Range(members) : m.Id = id

\* C20: a send is attempted only for a needs-reminder pair whose member
\* was last reminded more than 14 days ago; after a send that succeeded
\* the next call is the patch of that member, with today as last reminder
\* day and the fetched count plus one.
C20_SendThenPatchCounted ==
    \A k \in DOMAIN log : log[k].op = "send" =>
        /\ \E pair \in Range(membersToUpdatePaymentNeeded) : pair.Member.Id = log[k].Id
        /\ now - Snapshot(log[k].Id).LastContributionEmailDate > GuardDays * TicksPerDay
        /\ k < Len(log)
        /\ log[k + 1].op = "patch" /\ log[k + 1].Id = log[k].Id
        /\ log[k].ok =>
            /\ OnDay(now, log[k + 1].payload.LastContributionEmailDate)
            /\ log[k + 1].payload.NumberContributionsEmail =
                    Snapshot(log[k].Id).NumberContributionsEmail + 1

\* a member reminded once, a month ago: the second reminder went out and
\* the row counts two
C20_Witness ==
    \E k \in DOMAIN log :
        /\ log[k].op = "send" /\ log[k].ok
        /\ Snapshot(log[k].Id).NumberContributionsEmail = 1
        /\ log[k + 1].ok
        /\ \E j \in DOMAIN store :
            /\ store[j].Id = log[k].Id
            /\ store[j].NumberContributionsEmail = 2
            /\ OnDay(now, store[j].LastContributionEmailDate)

\* C16: a run that has started reaches its end, after generateStats, or a
\* fatal exit: the listing of payments ends with an empty page, the table
\* of members with a page without next link, and every call returns.
C16_RunToCompletion == Running ~> (pc \in {"done", "exit"})

\* a run over two pages of payments and two pages of members that sent,
\* patched and logged its stats
C16_Witness ==
    /\ pc = "done"
    /\ Len(allPayments) > PageSize
    /\ Len(members) > PageSize
    /\ log # <<>>
    /\ pageIndex > 2

\* C21: after a send that failed the next call is the patch of that
\* member: inactive, the day of the pair's payment as last payment date,
\* and the last reminder day and the count as they were fetched.
C21_FailedSendStillPatched ==
    \A k \in DOMAIN log : (log[k].op = "send" /\ ~log[k].ok) =>
        /\ k < Len(log)
        /\ log[k + 1].op = "patch" /\ log[k + 1].Id = log[k].Id
        /\ log[k + 1].payload.ActiveMembership = FALSE
        /\ \E pair \in Range(membersToUpdatePaymentNeeded) :
                ReminderPatch(pair, log[k + 1])
        /\ OnDay(Snapshot(log[k].Id).LastContributionEmailDate,
                 log[k + 1].payload.LastContributionEmailDate)
        /\ log[k + 1].payload.NumberContributionsEmail =
                Snapshot(log[k].Id).NumberContributionsEmail

\* an active member reminded once: the send failed, the patch went through,
\* the row is inactive and still counts one
C21_Witness ==
    \E k \in DOMAIN log :
        /\ log[k].op = "send" /\ ~log[k].ok
        /\ log[k + 1].ok
        /\ Snapshot(log[k].Id).ActiveMembership
        /\ Snapshot(log[k].Id).NumberContributionsEmail = 1
        /\ \E j \in DOMAIN store :
            /\ store[j].Id = log[k].Id
            /\ ~store[j].ActiveMembership
            /\ store[j].NumberContributionsEmail = 1

\* main is through both lists
ListsDone == pc \in {"Stats", "done"}

\* C22: for a matched pair that is in neither list the run makes no call
\* for its member, and the member's row is as the run found it.
C22_NoActionPairUntouched ==
    ListsDone =>
        \A pair \in Range(membersWithPayment) :
            (~InPaymentNeeded(pair) /\ ~InStatusUpdate(pair)) =>
                /\ \A k \in DOMAIN log : log[k].Id # pair.Member.Id
                /\ \A j \in DOMAIN store :
                        store[j].Id = pair.Member.Id => store[j] = storeAtStart[j]

\* the emails that paid a membership fee
FeePayers == {filteredPayments[k].PayerEmail : k \in DOMAIN filteredPayments}

\* the positions, in the filtered list, of the latest fees of email e
Tied(e) ==
    {k \in DOMAIN filteredPayments :
        /\ filteredPayments[k].PayerEmail = e
        /\ \A j \in DOMAIN filteredPayments :
                filteredPayments[j].PayerEmail = e =>
                    filteredPayments[j].OrderDate <= filteredPayments[k].OrderDate}

\* the payment the reduced list holds for email e
Kept(e) == uniquePayments[CHOOSE k \in DOMAIN uniquePayments :
                                uniquePayments[k].PayerEmail = e]

\* C23 as stated: of the latest fees of one email, dated the same, the
\* reducer keeps the last one of the input order.
C23_LastSeenWins ==
    Reduced =>
        \A e \in FeePayers :
            Kept(e) = filteredPayments[CHOOSE k \in Tied(e) : \A j \in Tied(e) : j <= k]

\* C23 amended: of the latest fees of one email, dated the same, the
\* reducer keeps the first one of the input order, on every run.
C23_FirstSeenWins ==
    Reduced =>
        \A e \in FeePayers :
            Kept(e) = filteredPayments[CHOOSE k \in Tied(e) : \A j \in Tied(e) : k <= j]

\* two different fees of one email with the same, latest date, reduced
C23_Witness ==
    /\ Reduced
    /\ \E e \in FeePayers : \E i, j \in Tied(e) :
            filteredPayments[i] # filteredPayments[j]

\* the last member of the fetched list registered under email e
LastRegistered(e) ==
    members[CHOOSE k \in DOMAIN members :
                /\ e \in EmailsOf(members[k])
                /\ \A j \in DOMAIN members : e \in EmailsOf(members[j]) => j <= k]

\* C24: the index leads from an email to the last member of the fetched
\* list registered under it, and the one pair of a payment from that email
\* is a pair of that member.
C24_LastRegisteredWins ==
    Reconciled =>
        /\ \A e \in DOMAIN membersByEmail : membersByEmail[e] = LastRegistered(e)
        /\ \A pair \in Range(membersWithPayment) :
                pair.Member = LastRegistered(pair.Payment.PayerEmail)
        /\ \A i, j \in DOMAIN membersWithPayment :
                membersWithPayment[i].Payment.PayerEmail =
                    membersWithPayment[j].Payment.PayerEmail => i = j

\* two members registered under one email, and the payment from that email
\* paired with the second
C24_Witness ==
    /\ Reconciled
    /\ Len(members) = 2
    /\ \E pair \in Range(membersWithPayment) :
        /\ pair.Payment.PayerEmail \in EmailsOf(members[1]) \cap EmailsOf(members[2])
        /\ pair.Member = members[2]

\* C25: no reminder is sent to a member who paid a membership fee dated on
\* or after now minus one year from one of the emails the index resolves
\* to that member.
C25_NoReminderToPaidMember ==
    \A k \in DOMAIN log : log[k].op = "send" =>
        \A p \in Range(filteredPayments) :
            p.PayerEmail \in IndexedEmails(log[k].Id) => p.OrderDate < oneYearAgo

\* C26: a member is in at most one matched pair, and a run makes at most
\* one send and at most one patch for a member.
C26_OnePairPerMember ==
    /\ \A i, j \in DOMAIN membersWithPayment :
            membersWithPayment[i].Member.Id = membersWithPayment[j].Member.Id => i = j
    /\ \A i, j \in DOMAIN log :
            (log[i].Id = log[j].Id /\ log[i].op = log[j].op) => i = j

\* C27: once the patch after a delivered reminder has written the new
\* last reminder day and count, every later successful patch of that
\* member in the run carries the same two values.
C27_NoLostUpdate ==
    \A j \in DOMAIN log : (log[j].op = "send" /\ log[j].ok /\ log[j + 1].ok) =>
        \A k \in DOMAIN log :
            (k > j + 1 /\ log[k].op = "patch" /\ log[k].ok /\ log[k].Id = log[j].Id) =>
                /\ log[k].payload.LastContributionEmailDate =
                        log[j + 1].payload.LastContributionEmailDate
                /\ log[k].payload.NumberContributionsEmail =
                        log[j + 1].payload.NumberContributionsEmail

\* C29: a member of a matched pair, found by its primary or an alternate
\* email, is not among the members generateStats counts as without payment
\* entry.
C29_PairedMemberNotCounted ==
    pc = "done" =>
        /\ stats.membersWithoutPaymentEntry =
                Len(MembersWithoutPaymentEntry(members, paymentsByEmail))
        /\ \A pair \in Range(membersWithPayment) :
                \A m \in Range(MembersWithoutPaymentEntry(members, paymentsByEmail)) :
                    m.Id # pair.Member.Id

\* C28: when a run has written the status update of a pair, the run that
\* follows at once, with the payment still dated on or after now minus one
\* year, has that pair in neither list and patches that member no more.
C28_StatusUpdateIdempotent ==
    \A v \in validatedBefore :
        (Reconciled /\ now - v.at <= 1 /\ v.Payment.OrderDate >= oneYearAgo) =>
            /\ \A pair \in Range(membersWithPayment) :
                    (pair.Member.Id = v.Id /\ pair.Payment = v.Payment) =>
                        ~InPaymentNeeded(pair) /\ ~InStatusUpdate(pair)
            /\ \A k \in DOMAIN log : log[k].op = "patch" => log[k].Id # v.Id

\* C30: a step that delivers no reminder to a member leaves the last
\* reminder date of the member's row as it is; an empty date stays empty.
C30_ReminderDateKeptWithoutSend ==
    [][\A k \in DOMAIN store :
            Len(sentAt'[store[k].Id]) = Len(sentAt[store[k].Id]) =>
                /\ store'[k].LastContributionEmailDate = store[k].LastContributionEmailDate
                /\ store[k].LastContributionEmailDate = NoDate =>
                        store'[k].LastContributionEmailDate = NoDate]_vars

====
